---- MODULE Spec2Model ----
(***************************************************************************)
(* A model of the skip list of skip_list.py: SkipNode objects on a heap,   *)
(* the SkipList fields head/level/size, and the operations __getitem__,    *)
(* get_level, insert and delete, translated loop by loop.                  *)
(***************************************************************************)
EXTENDS Integers, FiniteSets, Sequences, TLC

\* ---- bounds of the model ----
MaxKey == 3
MaxValue == 2
MaxLevel == 1
MaxSize == 3

Keys == 1..MaxKey
Values == 1..MaxValue
Levels == 0..MaxLevel

\* Python's None (an absent forward link, the head's key and value).
None == -1
\* The outcome "raise KeyError(k)" of __getitem__.
KeyError == 0
\* The address of the head sentinel; real nodes live at 1, 2, ...
head == 0

VARIABLES heap, level, size, last, inserted, model, snap, frame
vars == <<heap, level, size, last, inserted, model, snap, frame>>

\* ---- dictionaries (SkipNode.next is a Dict[int, SkipNode]) ----
EmptyDict == [j \in {} |-> None]
\* d.get(i)
Get(d, i) == IF i \in DOMAIN d THEN d[i] ELSE None
\* d[i] = v
Put(d, i, v) == [j \in (DOMAIN d) \cup {i} |-> IF j = i THEN v ELSE d[j]]
\* del d[i] (reference dictionary only)
Del(d, i) == [j \in (DOMAIN d) \ {i} |-> d[j]]

\* SkipNode(Pair(key, value), next)
SkipNode(key, value, next) == [pair |-> [key |-> key, value |-> value], next |-> next]

\* SkipNode.level: max(self.next.keys())
NodeLevel(n) == CHOOSE i \in DOMAIN n.next : \A j \in DOMAIN n.next : j <= i

\* ---- the object store ----
\* the nodes met by following the level-i links from x
RECURSIVE Chain(_, _, _)
Chain(hp, x, i) ==
  LET n == Get(hp[x].next, i) IN
  IF n = None THEN << >> ELSE <<n>> \o Chain(hp, n, i)

LevelNodes(hp, i) == Chain(hp, head, i)
Range(s) == {s[j] : j \in 1..Len(s)}

\* the objects still referenced, directly or indirectly, from the head
RECURSIVE Reach(_, _)
Reach(hp, S) ==
  LET T == S \cup ({Get(hp[n].next, i) : n \in S, i \in Levels} \ {None})
  IN IF T = S THEN S ELSE Reach(hp, T)

RECURSIVE SortedSeq(_)
SortedSeq(S) ==
  IF S = {} THEN << >>
  ELSE LET m == CHOOSE a \in S : \A b \in S : a <= b IN <<m>> \o SortedSeq(S \ {m})

\* The program never reads, compares or orders object addresses, so a store
\* is kept up to renaming: an object nothing refers to any more is freed
\* (reference counting), and the live nodes are named 1, 2, ... in the order
\* of the level-0 chain (any live node outside that chain comes after).
Order(hp) ==
  LevelNodes(hp, 0) \o SortedSeq((Reach(hp, {head}) \ {head}) \ Range(LevelNodes(hp, 0)))

\* the new name of node n, order being the new order of the live nodes
\* (a freed object has none)
Rename(order, n) ==
  IF n = head \/ n = None THEN n
  ELSE IF n \notin Range(order) THEN None
  ELSE CHOOSE j \in 1..Len(order) : order[j] = n

Collect(hp) ==
  LET order == Order(hp)
      old(j) == IF j = head THEN head ELSE order[j]
  IN [j \in {head} \cup (1..Len(order)) |->
        [pair |-> hp[old(j)].pair,
         next |-> [i \in DOMAIN hp[old(j)].next |-> Rename(order, hp[old(j)].next[i])]]]

\* ---- __getitem__ ----
\* the descent as range(self.level, 0, -1): level 0 is never searched
RECURSIVE GetItemWalkSkip0(_, _, _, _)
GetItemWalkSkip0(hp, x, i, k) ==
  IF i < 1 THEN KeyError
  ELSE LET n == Get(hp[x].next, i) IN
       IF n = None \/ k < hp[n].pair.key THEN GetItemWalkSkip0(hp, x, i - 1, k)
       ELSE IF hp[n].pair.key = k THEN hp[n].pair.value
       ELSE GetItemWalkSkip0(hp, n, i, k)

RECURSIVE GetItemWalk(_, _, _, _)
GetItemWalk(hp, x, i, k) ==
  IF i < 0 THEN KeyError
  ELSE LET n == Get(hp[x].next, i) IN
       IF n = None \/ k < hp[n].pair.key THEN GetItemWalk(hp, x, i - 1, k)
       ELSE IF hp[n].pair.key = k THEN hp[n].pair.value
       ELSE GetItemWalk(hp, n, i, k)

\* a lookup that answers with the first node whose key is not below k
RECURSIVE GetItemWalkGE(_, _, _, _)
GetItemWalkGE(hp, x, i, k) ==
  IF i < 0 THEN KeyError
  ELSE LET n == Get(hp[x].next, i) IN
       IF n = None THEN GetItemWalkGE(hp, x, i - 1, k)
       ELSE IF hp[n].pair.key >= k THEN hp[n].pair.value
       ELSE GetItemWalkGE(hp, n, i, k)

getitem_ge(hp, lvl, k) == GetItemWalkGE(hp, head, lvl, k)

getitem(hp, lvl, k) == GetItemWalk(hp, head, lvl, k)

\* ---- get_level ----
\* while random.choice([True, False]): level += 1
\* the results the loop can return once the counter stands at lvl: False
\* returns lvl, True goes round again (heights above MaxLevel are cut off)
RECURSIVE GetLevelFrom(_)
GetLevelFrom(lvl) ==
  {lvl} \cup (IF lvl < MaxLevel THEN GetLevelFrom(lvl + 1) ELSE {})

get_level == GetLevelFrom(0)

\* ---- insert ----
\* the address of a newly constructed object
Alloc(hp) == CHOOSE n \in 1..(MaxSize + 1) :
                 n \notin DOMAIN hp /\ \A m \in 1..(n - 1) : m \in DOMAIN hp

\* the advance with <= for <: it also passes the nodes with an equal key
RECURSIVE InsertAdvanceLE(_, _, _, _)
InsertAdvanceLE(hp, x, i, key) ==
  LET n == Get(hp[x].next, i) IN
  IF n # None /\ hp[n].pair.key <= key THEN InsertAdvanceLE(hp, n, i, key) ELSE x

\* the advance with the comparison turned round (key < x.next[i].pair.key)
RECURSIVE InsertAdvanceGT(_, _, _, _)
InsertAdvanceGT(hp, x, i, key) ==
  LET n == Get(hp[x].next, i) IN
  IF n # None /\ key < hp[n].pair.key THEN InsertAdvanceGT(hp, n, i, key) ELSE x

\* while x.next.get(i) is not None and x.next[i].pair.key < key: x = x.next[i]
RECURSIVE InsertAdvance(_, _, _, _)
InsertAdvance(hp, x, i, key) ==
  LET n == Get(hp[x].next, i) IN
  IF n # None /\ hp[n].pair.key < key THEN InsertAdvance(hp, n, i, key) ELSE x

\* the loop with new_node.next[i] = None: the new node always ends the chain
RECURSIVE InsertLoopNoNext(_, _, _, _, _)
InsertLoopNoNext(hp, x, i, new, key) ==
  IF i < 0 THEN hp
  ELSE LET y == InsertAdvance(hp, x, i, key)
           hp1 == [hp EXCEPT ![new].next = Put(@, i, None)]
           hp2 == [hp1 EXCEPT ![y].next = Put(@, i, new)]
       IN InsertLoopNoNext(hp2, y, i - 1, new, key)

\* the loop as range(new_level, 0, -1): level 0 is left out
RECURSIVE InsertLoopSkip0(_, _, _, _, _)
InsertLoopSkip0(hp, x, i, new, key) ==
  IF i < 1 THEN hp
  ELSE LET y == InsertAdvance(hp, x, i, key)
           hp1 == [hp EXCEPT ![new].next = Put(@, i, Get(hp[y].next, i))]
           hp2 == [hp1 EXCEPT ![y].next = Put(@, i, new)]
       IN InsertLoopSkip0(hp2, y, i - 1, new, key)

\* for i in range(new_level, -1, -1): advance, then splice new_node in
RECURSIVE InsertLoop(_, _, _, _, _)
InsertLoop(hp, x, i, new, key) ==
  IF i < 0 THEN hp
  ELSE LET y == InsertAdvance(hp, x, i, key)
           hp1 == [hp EXCEPT ![new].next = Put(@, i, Get(hp[y].next, i))]
           hp2 == [hp1 EXCEPT ![y].next = Put(@, i, new)]
       IN InsertLoop(hp2, y, i - 1, new, key)

\* an insert with lines 140 and 141 the other way round: x.next[i] is the new
\* node already when it is read, so the new node's link at every level is
\* the new node itself
insert_self_link(hp, lvl, sz, key, value, new_level) ==
  LET new == Alloc(hp)
      hp0 == [n \in (DOMAIN hp) \cup {new} |->
                IF n = new THEN SkipNode(key, value, EmptyDict) ELSE hp[n]]
      hp1 == InsertLoop(hp0, head, new_level, new, key)
      node == Rename(Order(hp1), new)
  IN [heap |-> [Collect(hp1) EXCEPT ![node].next = [i \in 0..new_level |-> node]],
      level |-> IF new_level > lvl THEN new_level ELSE lvl,
      size |-> sz + 1,
      node |-> node]

\* an insert that never raises self.level
insert_keep_level(hp, lvl, sz, key, value, new_level) ==
  LET new == Alloc(hp)
      hp0 == [n \in (DOMAIN hp) \cup {new} |->
                IF n = new THEN SkipNode(key, value, EmptyDict) ELSE hp[n]]
      hp1 == InsertLoop(hp0, head, new_level, new, key)
  IN [heap |-> Collect(hp1),
      level |-> lvl,
      size |-> sz + 1,
      node |-> Rename(Order(hp1), new)]

insert(hp, lvl, sz, key, value, new_level) ==
  LET new == Alloc(hp)
      hp0 == [n \in (DOMAIN hp) \cup {new} |->
                IF n = new THEN SkipNode(key, value, EmptyDict) ELSE hp[n]]
      hp1 == InsertLoop(hp0, head, new_level, new, key)
  IN [heap |-> Collect(hp1),
      level |-> IF new_level > lvl THEN new_level ELSE lvl,
      size |-> sz + 1,
      node |-> Rename(Order(hp1), new)]

\* ---- delete ----
\* a delete loop that drops a level as soon as it has unlinked one node
RECURSIVE DeleteLoopOnce(_, _, _, _, _)
DeleteLoopOnce(hp, x, i, key, deleted) ==
  IF i < 0 THEN [heap |-> hp, deleted |-> deleted]
  ELSE LET n == Get(hp[x].next, i) IN
       IF n = None \/ key < hp[n].pair.key THEN DeleteLoopOnce(hp, x, i - 1, key, deleted)
       ELSE IF hp[n].pair.key = key
            THEN DeleteLoopOnce([hp EXCEPT ![x].next = Put(@, i, Get(hp[n].next, i))],
                                x, i - 1, key, TRUE)
       ELSE DeleteLoopOnce(hp, n, i, key, deleted)

RECURSIVE DeleteLoop(_, _, _, _, _)
DeleteLoop(hp, x, i, key, deleted) ==
  IF i < 0 THEN [heap |-> hp, deleted |-> deleted]
  ELSE LET n == Get(hp[x].next, i) IN
       IF n = None \/ key < hp[n].pair.key THEN DeleteLoop(hp, x, i - 1, key, deleted)
       ELSE IF hp[n].pair.key = key
            THEN DeleteLoop([hp EXCEPT ![x].next = Put(@, i, Get(hp[n].next, i))],
                            x, i, key, TRUE)
       ELSE DeleteLoop(hp, n, i, key, deleted)

\* a delete that searches level 0 only
delete_level0(hp, lvl, sz, key) ==
  LET r == DeleteLoop(hp, head, 0, key, FALSE)
  IN [heap |-> Collect(r.heap),
      level |-> lvl,
      size |-> IF r.deleted THEN sz - 1 ELSE sz,
      deleted |-> r.deleted,
      removed |-> Cardinality(DOMAIN hp) - Cardinality(DOMAIN Collect(r.heap))]

\* a delete that decrements size once for every node it unlinked
delete_dec_per_node(hp, lvl, sz, key) ==
  LET r == DeleteLoop(hp, head, lvl, key, FALSE)
  IN [heap |-> Collect(r.heap),
      level |-> lvl,
      size |-> sz - (Cardinality(DOMAIN hp) - Cardinality(DOMAIN Collect(r.heap))),
      deleted |-> r.deleted,
      removed |-> Cardinality(DOMAIN hp) - Cardinality(DOMAIN Collect(r.heap))]

\* a delete that decrements size whether or not it found the key
delete_always_dec(hp, lvl, sz, key) ==
  LET r == DeleteLoop(hp, head, lvl, key, FALSE)
  IN [heap |-> Collect(r.heap),
      level |-> lvl,
      size |-> sz - 1,
      deleted |-> r.deleted,
      removed |-> Cardinality(DOMAIN hp) - Cardinality(DOMAIN Collect(r.heap))]

delete(hp, lvl, sz, key) ==
  LET r == DeleteLoop(hp, head, lvl, key, FALSE)
  IN [heap |-> Collect(r.heap),
      level |-> lvl,
      size |-> IF r.deleted THEN sz - 1 ELSE sz,
      deleted |-> r.deleted,
      removed |-> Cardinality(DOMAIN hp) - Cardinality(DOMAIN Collect(r.heap))]

\* ---- observations of a state ----
LevelKeys(hp, i) == [j \in 1..Len(LevelNodes(hp, i)) |-> hp[LevelNodes(hp, i)[j]].pair.key]
KeySet(hp, i) == Range(LevelKeys(hp, i))
Present(hp, k) == k \in KeySet(hp, 0)
AllKeySets(hp) == [i \in Levels |-> KeySet(hp, i)]

\* snap remembers size and the key sets of every level as they were before an
\* insert of a key that was absent: stage 1 right after that insert, stage 2
\* when the very next call was delete of the same key, stage 0 otherwise.
NoSnap == [stage |-> 0, size |-> 0, keys |-> [i \in Levels |-> {}]]

\* last is the call that produced the state: its arguments, the height
\* get_level returned, and what it answered (getitem: the value or KeyError;
\* insert: the new node; delete: the deleted flag and the nodes it freed).
Call(op, key, value, h, res, deleted, removed) ==
  [op |-> op, key |-> key, value |-> value, h |-> h, res |-> res,
   deleted |-> deleted, removed |-> removed]

\* frame holds the locals of the call that is running when the calls are
\* taken one loop iteration at a time (SpecSteps): pc says which call, x and
\* i are the traversal pointer and the level, lvl is get_level's counter and
\* then new_level, new is new_node. Between calls, and all through Spec where
\* a call is one step, it is Idle.
Frame(pc, x, i, key, value, new, lvl, deleted) ==
  [pc |-> pc, x |-> x, i |-> i, key |-> key, value |-> value, new |-> new,
   lvl |-> lvl, deleted |-> deleted]

Idle == Frame("idle", None, None, None, None, None, None, FALSE)

\* ---- the state machine ----
\* SkipList(SkipNode(Pair(None, None), {}), 0, 0): the empty list
Init ==
  /\ heap = [n \in {head} |-> SkipNode(None, None, EmptyDict)]
  /\ level = 0
  /\ size = 0
  /\ last = Call("new", None, None, None, None, FALSE, 0)
  /\ inserted = {}
  /\ model = EmptyDict
  /\ snap = NoSnap
  /\ frame = Idle

\* skiplist.insert(key, value), get_level returning new_level
Insert ==
  \E key \in Keys, value \in Values, new_level \in get_level :
    /\ size < MaxSize
    /\ LET r == insert(heap, level, size, key, value, new_level) IN
         /\ heap' = r.heap
         /\ level' = r.level
         /\ size' = r.size
         /\ last' = Call("insert", key, value, new_level, r.node, FALSE, 0)
    /\ inserted' = inserted \cup {key}
    /\ model' = Put(model, key, value)
    /\ snap' = IF Present(heap, key) THEN NoSnap
               ELSE [stage |-> 1, size |-> size, keys |-> AllKeySets(heap)]
    /\ UNCHANGED frame

\* skiplist.delete(key)
Delete ==
  \E key \in Keys :
    /\ LET r == delete(heap, level, size, key) IN
         /\ heap' = r.heap
         /\ level' = r.level
         /\ size' = r.size
         /\ last' = Call("delete", key, None, None, None, r.deleted, r.removed)
    /\ model' = Del(model, key)
    /\ snap' = IF snap.stage = 1 /\ last.key = key THEN [snap EXCEPT !.stage = 2]
               ELSE NoSnap
    /\ UNCHANGED <<inserted, frame>>

\* a lookup that reads the head's links with setdefault(i) for get(i)
Lookup_setdefault ==
  \E key \in Keys :
    /\ last' = Call("getitem", key, None, None, getitem(heap, level, key), FALSE, 0)
    /\ snap' = NoSnap
    /\ heap' = [heap EXCEPT ![head].next =
                  [i \in (DOMAIN heap[head].next) \cup (0..level) |-> Get(heap[head].next, i)]]
    /\ UNCHANGED <<level, size, inserted, model, frame>>

\* skiplist[key]
Lookup ==
  \E key \in Keys :
    /\ last' = Call("getitem", key, None, None, getitem(heap, level, key), FALSE, 0)
    /\ snap' = NoSnap
    /\ UNCHANGED <<heap, level, size, inserted, model, frame>>

Next == Insert \/ Delete \/ Lookup

Spec == Init /\ [][Next]_vars

\* The calls of a client that never inserts a key while it is in the list.
InsertFresh == Insert /\ ~Present(heap, last'.key)

NextMap == InsertFresh \/ Delete \/ Lookup

SpecMap == Init /\ [][NextMap]_vars

\* ---- the calls taken one loop iteration at a time ----
ghosts == <<last, inserted, model, snap>>

\* skiplist[key] is called: x = self.head, i = self.level
CallGetItem ==
  \E key \in Keys :
    /\ frame.pc = "idle"
    /\ frame' = Frame("getitem", head, level, key, None, None, None, FALSE)
    /\ UNCHANGED <<heap, level, size, ghosts>>

\* one pass through the body of __getitem__'s while loop, or the raise after
\* the for loop
GetItemStep ==
  /\ frame.pc = "getitem"
  /\ IF frame.i < 0 THEN frame' = Idle
     ELSE LET n == Get(heap[frame.x].next, frame.i) IN
          IF n = None \/ frame.key < heap[n].pair.key
            THEN frame' = [frame EXCEPT !.i = @ - 1]
          ELSE IF heap[n].pair.key = frame.key THEN frame' = Idle
          ELSE frame' = [frame EXCEPT !.x = n]
  /\ UNCHANGED <<heap, level, size, ghosts>>

\* The code stores values and never compares them, so they have no part in
\* how long a call runs: the stepped calls insert one value.
StepValues == {1}

\* skiplist.insert(key, value) is called and enters get_level: level = 0
CallInsert ==
  \E key \in Keys, value \in StepValues :
    /\ frame.pc = "idle"
    /\ size < MaxSize
    /\ frame' = Frame("get_level", None, None, key, value, None, 0, FALSE)
    /\ UNCHANGED <<heap, level, size, ghosts>>

\* random.choice([True, False]) gives True: level += 1
FlipTrue ==
  /\ frame.pc = "get_level"
  /\ frame.lvl < MaxLevel
  /\ frame' = [frame EXCEPT !.lvl = @ + 1]
  /\ UNCHANGED <<heap, level, size, ghosts>>

\* random.choice([True, False]) gives False: get_level returns, insert raises
\* self.level if need be, makes new_node and sets x = self.head
FlipFalse ==
  /\ frame.pc = "get_level"
  /\ level' = IF frame.lvl > level THEN frame.lvl ELSE level
  /\ heap' = [n \in (DOMAIN heap) \cup {Alloc(heap)} |->
                IF n = Alloc(heap) THEN SkipNode(frame.key, frame.value, EmptyDict)
                ELSE heap[n]]
  /\ frame' = [frame EXCEPT !.pc = "insert", !.x = head, !.i = frame.lvl,
                            !.new = Alloc(heap)]
  /\ UNCHANGED <<size, ghosts>>

\* one pass through insert's while loop, the splice that follows it, or the
\* size += 1 and return after the for loop
InsertStep ==
  /\ frame.pc = "insert"
  /\ IF frame.i < 0
       THEN /\ size' = size + 1
            /\ heap' = Collect(heap)
            /\ frame' = Idle
     ELSE LET n == Get(heap[frame.x].next, frame.i) IN
          IF n # None /\ heap[n].pair.key < frame.key
            THEN /\ frame' = [frame EXCEPT !.x = n]
                 /\ UNCHANGED <<heap, size>>
          ELSE /\ heap' = [heap EXCEPT ![frame.new].next = Put(@, frame.i, n),
                                       ![frame.x].next = Put(@, frame.i, frame.new)]
               /\ frame' = [frame EXCEPT !.i = @ - 1]
               /\ UNCHANGED size
  /\ UNCHANGED <<level, ghosts>>

\* skiplist.delete(key) is called: x = self.head, deleted = False
CallDelete ==
  \E key \in Keys :
    /\ frame.pc = "idle"
    /\ frame' = Frame("delete", head, level, key, None, None, None, FALSE)
    /\ UNCHANGED <<heap, level, size, ghosts>>

\* a pass through delete's while loop that finds the key but leaves out the
\* splice of line 171
DeleteStepNoSplice ==
  /\ frame.pc = "delete"
  /\ IF frame.i < 0
       THEN /\ size' = IF frame.deleted THEN size - 1 ELSE size
            /\ heap' = Collect(heap)
            /\ frame' = Idle
     ELSE LET n == Get(heap[frame.x].next, frame.i) IN
          IF n = None \/ frame.key < heap[n].pair.key
            THEN /\ frame' = [frame EXCEPT !.i = @ - 1]
                 /\ UNCHANGED <<heap, size>>
          ELSE IF heap[n].pair.key = frame.key
            THEN /\ frame' = [frame EXCEPT !.deleted = TRUE]
                 /\ UNCHANGED <<heap, size>>
          ELSE /\ frame' = [frame EXCEPT !.x = n]
               /\ UNCHANGED <<heap, size>>
  /\ UNCHANGED <<level, ghosts>>

\* one pass through the body of delete's while loop, or the size update and
\* return after the for loop
DeleteStep ==
  /\ frame.pc = "delete"
  /\ IF frame.i < 0
       THEN /\ size' = IF frame.deleted THEN size - 1 ELSE size
            /\ heap' = Collect(heap)
            /\ frame' = Idle
     ELSE LET n == Get(heap[frame.x].next, frame.i) IN
          IF n = None \/ frame.key < heap[n].pair.key
            THEN /\ frame' = [frame EXCEPT !.i = @ - 1]
                 /\ UNCHANGED <<heap, size>>
          ELSE IF heap[n].pair.key = frame.key
            THEN /\ heap' = [heap EXCEPT ![frame.x].next =
                               Put(@, frame.i, Get(heap[n].next, frame.i))]
                 /\ frame' = [frame EXCEPT !.deleted = TRUE]
                 /\ UNCHANGED size
          ELSE /\ frame' = [frame EXCEPT !.x = n]
               /\ UNCHANGED <<heap, size>>
  /\ UNCHANGED <<level, ghosts>>

NextSteps ==
  \/ CallGetItem \/ GetItemStep
  \/ CallInsert \/ FlipTrue \/ FlipFalse \/ InsertStep
  \/ CallDelete \/ DeleteStep

\* A call that has started runs on (the program is single-threaded and there
\* is nothing to wait for), and the coin does not give True for ever.
RunStep == GetItemStep \/ InsertStep \/ DeleteStep \/ FlipFalse

Fairness == WF_vars(RunStep)

SpecSteps == Init /\ [][NextSteps]_vars /\ Fairness

\* ---- properties ----
Max(a, b) == IF a > b THEN a ELSE b
NodeCount == Cardinality(DOMAIN heap) - 1

\* s is a subsequence of t
RECURSIVE IsSubseq(_, _)
IsSubseq(s, t) ==
  IF s = << >> THEN TRUE
  ELSE IF t = << >> THEN FALSE
  ELSE IF Head(s) = Head(t) THEN IsSubseq(Tail(s), Tail(t))
  ELSE IsSubseq(s, Tail(t))

\* C1: for every key inserted and not deleted since, lookup returns the value
\* of the most recent insert of that key (model is the reference dictionary).
C1_LookupMostRecent ==
  \A k \in DOMAIN model : getitem(heap, level, k) = model[k]

\* C2: lookup fails with KeyError on the empty list and, in any state, for a
\* key that was never passed to insert; a lookup call just made on such a key
\* answered KeyError.
C2_MissingKey ==
  /\ NodeCount = 0 => \A k \in Keys : getitem(heap, level, k) = KeyError
  /\ \A k \in Keys \ inserted : getitem(heap, level, k) = KeyError
  /\ (last.op = "getitem" /\ last.key \notin inserted) => last.res = KeyError

C2_Witness ==
  /\ last.op = "getitem"
  /\ last.key \notin inserted
  /\ last.res = KeyError
  /\ NodeCount >= 2
  /\ \E k \in inserted : k > last.key /\ Present(heap, k)
  /\ \E k \in inserted : k < last.key /\ Present(heap, k)

\* C3: right after delete(k), whatever nodes carried k and whatever their
\* heights, lookup(k) fails with KeyError.
C3_DeleteThenMissing ==
  last.op = "delete" => getitem(heap, level, last.key) = KeyError

C3_Witness ==
  /\ last.op = "delete"
  /\ last.deleted
  /\ last.removed >= 2
  /\ NodeCount >= 1
  /\ getitem(heap, level, last.key) = KeyError

\* C4: insert(k, v) of a key not in the list, at any height, makes lookup(k)
\* return v and makes size grow by exactly one.
C4_InsertAbsent ==
  [][(last'.op = "insert" /\ ~Present(heap, last'.key)) =>
        /\ getitem(heap', level', last'.key) = last'.value
        /\ size' = size + 1]_vars

C4_Witness ==
  /\ last.op = "insert"
  /\ snap.stage = 1
  /\ last.key \notin snap.keys[0]
  /\ snap.keys[0] # {}
  /\ last.h = level
  /\ snap.keys[last.h] = {}
  /\ getitem(heap, level, last.key) = last.value
  /\ size = snap.size + 1

\* C5: size equals the number of distinct keys reachable at level 0.
C5_SizeDistinctKeys ==
  size = Cardinality(KeySet(heap, 0))

\* C6: delete(k) of a key not in the list changes nothing (size, level, every
\* node and every forward link), and a second delete(k) right after a first
\* one changes nothing either.
C6_DeleteAbsentNoop ==
  [][/\ (last'.op = "delete" /\ ~Present(heap, last'.key)) =>
          (heap' = heap /\ level' = level /\ size' = size /\ ~last'.deleted)
     /\ (last'.op = "delete" /\ last.op = "delete" /\ last'.key = last.key) =>
          (heap' = heap /\ level' = level /\ size' = size)]_vars

C6_Witness ==
  /\ last.op = "delete"
  /\ ~last.deleted
  /\ ~Present(heap, last.key)
  /\ NodeCount >= 2
  /\ level >= 1

\* C7: insert(k, v) of a key not present followed by delete(k) restores size
\* and the set of keys reachable at every level.
C7_InsertDeleteRoundTrip ==
  snap.stage = 2 => (size = snap.size /\ AllKeySets(heap) = snap.keys)

C7_Witness ==
  /\ snap.stage = 2
  /\ last.op = "delete"
  /\ last.deleted
  /\ size = snap.size
  /\ AllKeySets(heap) = snap.keys
  /\ snap.keys[MaxLevel] # {}

\* C8: at each level 0..level the keys met along the forward links are
\* strictly increasing (so no two reachable nodes share a key).
C8_StrictlyIncreasing ==
  \A i \in 0..level :
    \A j \in 1..(Len(LevelKeys(heap, i)) - 1) :
      LevelKeys(heap, i)[j] < LevelKeys(heap, i)[j + 1]

\* C9: the nodes of level i+1 are nodes of level i, in the same relative
\* order, and level 0 holds every node.
C9_SubsetOrder ==
  /\ \A i \in Levels : IsSubseq(LevelNodes(heap, i + 1), LevelNodes(heap, i))
  /\ (DOMAIN heap) \ {head} = Range(LevelNodes(heap, 0))

C9_Witness ==
  /\ Len(LevelNodes(heap, 1)) >= 2
  /\ Len(LevelNodes(heap, 0)) > Len(LevelNodes(heap, 1))
  /\ IsSubseq(LevelNodes(heap, 1), LevelNodes(heap, 0))
  /\ Head(LevelNodes(heap, 1)) # Head(LevelNodes(heap, 0))

\* C10: insert(k, v) with get_level returning h creates a node holding k and
\* v whose forward links are those of levels 0..h, which is on the chain of
\* each of these levels and of no higher one, and the list's level becomes
\* max(level before, h).
C10_InsertHeight ==
  [][last'.op = "insert" =>
       LET n == last'.res
           h == last'.h
       IN /\ n \in (DOMAIN heap') \ {head}
          /\ heap'[n].pair = [key |-> last'.key, value |-> last'.value]
          /\ DOMAIN heap'[n].next = 0..h
          /\ NodeLevel(heap'[n]) = h
          /\ \A i \in 0..(MaxLevel + 1) :
               (n \in Range(LevelNodes(heap', i))) <=> (i <= h)
          /\ level' = Max(level, h)]_vars

C10_Witness ==
  /\ last.op = "insert"
  /\ last.h >= 1
  /\ last.h = level
  /\ NodeLevel(heap[last.res]) = last.h
  /\ NodeCount >= 2
  /\ \E n \in (DOMAIN heap) \ {head} : NodeLevel(heap[n]) < last.h

Nodes(hp) == (DOMAIN hp) \ {head}
\* the greatest height of a node of the list, 0 when there is none
MaxHeight(hp) ==
  IF Nodes(hp) = {} THEN 0
  ELSE CHOOSE h \in {NodeLevel(hp[n]) : n \in Nodes(hp)} :
         \A n \in Nodes(hp) : NodeLevel(hp[n]) <= h

\* C11 (as stated): no node's height exceeds level, and level equals the
\* maximum height over the nodes currently in the list (0 when it is empty).
C11_LevelIsMaxHeight ==
  /\ \A n \in Nodes(heap) : NodeLevel(heap[n]) <= level
  /\ level = MaxHeight(heap)

\* C11 (amended): no node's height exceeds level; level starts at 0, insert
\* makes it max(level, h) and delete and lookup leave it as it is, so level is
\* the greatest height seen so far and never goes down.
C11_LevelHighWater ==
  [][/\ \A n \in Nodes(heap') : NodeLevel(heap'[n]) <= level'
     /\ level' >= MaxHeight(heap')
     /\ level' >= level
     /\ last'.op = "insert" => level' = Max(level, last'.h)
     /\ last'.op \in {"delete", "getitem"} => level' = level]_vars

C11_Witness ==
  /\ last.op = "delete"
  /\ last.deleted
  /\ NodeCount >= 1
  /\ level > MaxHeight(heap)

\* C12: size equals the exact number of nodes reachable from the head by
\* level-0 links.
C12_SizeIsNodeCount ==
  size = Len(LevelNodes(heap, 0))

\* C13: delete(k) changes size by -1 when some level held a node with key k
\* and by 0 otherwise: one decrement per call, however many levels the node
\* spanned and however many nodes the call unlinked.
C13_DeleteSizeStep ==
  [][last'.op = "delete" =>
       LET held == \E i \in 0..level : last'.key \in KeySet(heap, i)
       IN /\ last'.deleted = held
          /\ size' = size - (IF held THEN 1 ELSE 0)]_vars

C13_Witness ==
  /\ last.op = "delete"
  /\ last.deleted
  /\ last.removed = 2
  /\ size = NodeCount + 1
  /\ level >= 1

\* C14: lookup(k) raises KeyError exactly when no node of level 0 has key k,
\* and otherwise returns the value of a node of level 0 with key k.
C14_LookupIsLevel0Scan ==
  \A k \in Keys :
    /\ (getitem(heap, level, k) = KeyError) <=> ~Present(heap, k)
    /\ getitem(heap, level, k) # KeyError =>
         \E j \in 1..Len(LevelNodes(heap, 0)) :
           heap[LevelNodes(heap, 0)[j]].pair = [key |-> k, value |-> getitem(heap, level, k)]

C14_Witness ==
  /\ last.op = "getitem"
  /\ last.res # KeyError
  /\ level >= 1
  /\ \A n \in Nodes(heap) : heap[n].pair.key = last.key => NodeLevel(heap[n]) = 0
  /\ \E m \in Nodes(heap) : heap[m].pair.key < last.key /\ NodeLevel(heap[m]) >= 1
  /\ \E m \in Nodes(heap) : heap[m].pair.key > last.key /\ NodeLevel(heap[m]) >= 1

\* the nodes reachable from the nodes of S by level-i links
RECURSIVE ReachAt(_, _, _)
ReachAt(hp, i, S) ==
  LET T == S \cup ({Get(hp[n].next, i) : n \in S} \ {None})
  IN IF T = S THEN S ELSE ReachAt(hp, i, T)

\* following level-i links from x for at most fuel steps ends at None
RECURSIVE WalkEnds(_, _, _, _)
WalkEnds(hp, x, i, fuel) ==
  LET n == Get(hp[x].next, i) IN
  IF n = None THEN TRUE
  ELSE IF fuel = 0 THEN FALSE
  ELSE WalkEnds(hp, n, i, fuel - 1)

\* C15: at each level every node reachable from the head is the forward
\* neighbour of exactly one node reachable at that level (the head
\* included), and the chain ends without visiting a node twice.
C15_OnePredecessor ==
  \A i \in Levels :
    LET R == ReachAt(heap, i, {head}) IN
      /\ \A n \in R \ {head} :
           Cardinality({m \in R : Get(heap[m].next, i) = n}) = 1
      /\ \A m \in R : Get(heap[m].next, i) # head
      /\ WalkEnds(heap, head, i, Cardinality(R) - 1)

C15_Witness ==
  /\ last.op = "delete"
  /\ last.deleted
  /\ Cardinality(ReachAt(heap, 0, {head})) = 3
  /\ Cardinality(ReachAt(heap, 1, {head})) = 3

\* C16: a lookup call, found or not, leaves every node (the head included),
\* level and size as they were.
C16_LookupReadOnly ==
  [][last'.op = "getitem" => (heap' = heap /\ level' = level /\ size' = size)]_vars

C16_Witness ==
  /\ last.op = "getitem"
  /\ last.res # KeyError
  /\ NodeCount >= 2
  /\ level >= 1
  /\ getitem(heap, level, last.key) = last.res

\* the nodes of level i whose key is not k, in chain order, each with its
\* key, value and height
Others(hp, i, k) ==
  SelectSeq([j \in 1..Len(LevelNodes(hp, i)) |->
               [pair |-> hp[LevelNodes(hp, i)[j]].pair,
                h |-> NodeLevel(hp[LevelNodes(hp, i)[j]])]],
            LAMBDA r : r.pair.key # k)

\* C19: insert(k, v) and delete(k) leave the outcome of lookup(j) the same for
\* every key j # k, and leave the other nodes of every level in the same
\* order.
C19_OtherKeysUntouched ==
  [][last'.op \in {"insert", "delete"} =>
       /\ \A j \in Keys \ {last'.key} :
            getitem(heap', level', j) = getitem(heap, level, j)
       /\ \A i \in Levels :
            Others(heap', i, last'.key) = Others(heap, i, last'.key)]_vars

C19_Witness ==
  /\ last.op = "insert"
  /\ NodeCount = 3
  /\ \E m \in Nodes(heap) : heap[m].pair.key < last.key /\ NodeLevel(heap[m]) >= 1
  /\ \E m \in Nodes(heap) : heap[m].pair.key > last.key /\ NodeLevel(heap[m]) >= 1
  /\ \A j \in Keys \ {last.key} : getitem(heap, level, j) # KeyError

\* the place of node n on the level-0 chain
Pos0(hp, n) == CHOOSE j \in 1..Len(LevelNodes(hp, 0)) : LevelNodes(hp, 0)[j] = n

\* among the nodes with key k of the greatest height, the one nearest the head
FirstTallest(hp, k) ==
  LET S == {n \in Nodes(hp) : hp[n].pair.key = k}
      T == {n \in S : \A m \in S : NodeLevel(hp[m]) <= NodeLevel(hp[n])}
  IN CHOOSE n \in T : \A m \in T : Pos0(hp, n) <= Pos0(hp, m)

\* C20: insert puts the new node in front of every node with the same key at
\* each level it occupies (so, among equal keys, nearer the head means more
\* recent), and lookup(k) returns the value of the most recent among the
\* tallest nodes with key k.
C20_DuplicateLookup ==
  [][/\ last'.op = "insert" =>
          \A i \in 0..last'.h :
            \A j \in 1..Len(LevelNodes(heap', i)) :
              LevelNodes(heap', i)[j] = last'.res =>
                /\ \A j2 \in 1..(j - 1) :
                     heap'[LevelNodes(heap', i)[j2]].pair.key < last'.key
                /\ \A j2 \in (j + 1)..Len(LevelNodes(heap', i)) :
                     heap'[LevelNodes(heap', i)[j2]].pair.key >= last'.key
     /\ \A k \in Keys :
          Present(heap', k) =>
            getitem(heap', level', k) = heap'[FirstTallest(heap', k)].pair.value]_vars

C20_Witness ==
  /\ last.op = "insert"
  /\ \E n \in Nodes(heap) :
       /\ n # last.res
       /\ heap[n].pair.key = last.key
       /\ NodeLevel(heap[n]) > last.h
       /\ heap[n].pair.value # last.value
       /\ getitem(heap, level, last.key) = heap[n].pair.value

\* the reference dictionary's answer to lookup(k)
ModelGet(k) == IF k \in DOMAIN model THEN model[k] ELSE KeyError

\* C18: when no key is inserted while it is in the list, lookup of every key
\* and size agree with the reference dictionary after every call, whatever
\* heights get_level returned.
C18_RefinesMap ==
  /\ \A k \in Keys : getitem(heap, level, k) = ModelGet(k)
  /\ size = Cardinality(DOMAIN model)
  /\ last.op = "getitem" => last.res = ModelGet(last.key)

C18_Witness ==
  /\ last.op = "getitem"
  /\ last.res = KeyError
  /\ last.key \in inserted
  /\ Cardinality(DOMAIN model) = 2
  /\ size = 2
  /\ level >= 1
  /\ \E n \in Nodes(heap) : NodeLevel(heap[n]) = 0

\* C17: every call of lookup, insert and delete that has started returns,
\* and get_level, given a coin that does not give True for ever, returns an
\* integer >= 0.
C17_Terminates ==
  /\ (frame.pc # "idle") ~> (frame.pc = "idle")
  /\ (frame.pc = "get_level") ~> (frame.pc = "insert" /\ frame.lvl >= 0)

C17_Witness ==
  /\ frame.pc = "insert"
  /\ frame.i < 0
  /\ frame.lvl = MaxLevel
  /\ Cardinality(DOMAIN heap) - 1 = MaxSize

TypeOK ==
  /\ level \in Levels
  /\ size \in 0..MaxSize
  /\ head \in DOMAIN heap
  /\ DOMAIN heap \subseteq 0..MaxSize
====
